---- MODULE Spec2Model ----
(***************************************************************************)
(* Model of dvc/repo/artifacts.py: the artifact-name grammar, the nested   *)
(* repository guard, Artifacts.read and Artifacts.add.                     *)
(*                                                                         *)
(* Strings are sequences of one-character strings.  A path is a record     *)
(* [abs, parts] as pathlib keeps it: "." components are dropped, ".."      *)
(* components are kept.  The process's working directory is the project    *)
(* root (paths are documented as relative to it).                          *)
(***************************************************************************)
EXTENDS Integers, Sequences, FiniteSets, TLC

\* ------------------------------------------------------------------ bounds
MaxNameLen == 3     \* longest string given to the name functions
MaxDepth   == 2     \* most directory components in a manifest path
MaxAdds    == 2     \* successful add calls in one behaviour

\* ------------------------------------------------------- name grammar
SEPARATOR_IN_NAME == ":"
NL == "\n"

\* a-z and 0-9, by representatives
Lower == {"a", "m"}
Digit == {"1"}
AlNum == Lower \cup Digit

\* every kind of character a name may hold
Chars == {"a", "1", "-", "/", SEPARATOR_IN_NAME, "_", "A", NL}

StringsUpTo(S, n) == UNION {[1..k -> S] : k \in 0..n}

\* the character class [a-z0-9-/] of NAME
NameInnerClass == AlNum \cup {"-", "/"}

\* s as a whole is  [a-z0-9]([a-z0-9-/]*[a-z0-9])?
NAME(s) ==
    /\ Len(s) >= 1
    /\ s[1] \in AlNum
    /\ \/ Len(s) = 1
       \/ /\ s[Len(s)] \in AlNum
          /\ \A i \in 2..(Len(s) - 1) : s[i] \in NameInnerClass

\* Python's $ : at the end of the string, or just before a final newline
Dollar(s, k) ==
    \/ k = Len(s)
    \/ k = Len(s) - 1 /\ s[Len(s)] = NL

\* NAME_RE.search(s) for the pattern ^NAME$
NAME_RE(s) == \E k \in 0..Len(s) : Dollar(s, k) /\ NAME(SubSeq(s, 1, k))

\* variant: only the part after the separator is matched
name_is_compatible_BaseOnly(name) ==
    IF \E i \in 1..Len(name) : name[i] = SEPARATOR_IN_NAME
    THEN NAME_RE(SubSeq(name,
                        1 + CHOOSE i \in 1..Len(name) :
                                name[i] = SEPARATOR_IN_NAME,
                        Len(name)))
    ELSE NAME_RE(name)

name_is_compatible(name) == NAME_RE(name)

\* the names check_name_format warns about
check_name_format(name) == IF name_is_compatible(name) THEN {} ELSE {name}

\* ------------------------------------------------------------- paths
PROJECT_FILE == "dvc.yaml"
UP == ".."

Path(abs, parts) == [abs |-> abs, parts |-> parts]

is_absolute(p) == p.abs

\* PurePath.name : the last component, "" when there is none
PathName(p) == IF p.parts = <<>> THEN "" ELSE p.parts[Len(p.parts)]

\* PurePath.parent : lexical, ".." is not resolved
PathParent(p) ==
    IF p.parts = <<>> THEN p
    ELSE [p EXCEPT !.parts = SubSeq(p.parts, 1, Len(p.parts) - 1)]

IsPrefix(s, t) == Len(s) <= Len(t) /\ SubSeq(t, 1, Len(s)) = s

\* ------------------------------------------------------- file system
\* directories, as resolved absolute locations
FsRoot  == <<>>
RootDir == <<"proj">>
SubDir  == <<"proj", "sub">>
Dirs    == {FsRoot, RootDir, SubDir}
NoEnt   == <<"ENOENT">>
Cwd     == RootDir

\* PurePath.relative_to(root_dir) : <<path>> or <<>> for ValueError
relative_to(p, root) ==
    IF p.abs /\ IsPrefix(root, p.parts)
    THEN <<Path(FALSE, SubSeq(p.parts, Len(root) + 1, Len(p.parts)))>>
    ELSE <<>>

RECURSIVE Walk(_, _)
\* the directory that parts lead to from dir, each step having to exist
Walk(dir, parts) ==
    IF parts = <<>> THEN dir
    ELSE LET c == Head(parts)
             nxt == IF c = UP
                    THEN (IF dir = <<>> THEN <<>>
                          ELSE SubSeq(dir, 1, Len(dir) - 1))
                    ELSE Append(dir, c)
         IN IF nxt \in Dirs THEN Walk(nxt, Tail(parts)) ELSE NoEnt

\* the directory a path names, NoEnt when it does not exist
Resolve(p) == Walk(IF p.abs THEN FsRoot ELSE Cwd, p.parts)

VARIABLES dvcDirs, files, index, registry, call, nAdds, files0, added

vars == <<dvcDirs, files, index, registry, call, nAdds, files0, added>>

\* ----------------------------------------------------------- outcomes
Outcome(kind, why, at) == [kind |-> kind, why |-> why, at |-> at]
Ok == Outcome("ok", "", <<>>)
InvalidArgumentError(why, at) == Outcome("InvalidArgument", why, at)

\* (path / Repo.DVC_DIR).is_dir()
HasDvcDir(path) == Resolve(path) \in dvcDirs

\* variant: only the manifest's own directory is looked at
NestedWalk_ParentOnly(path) ==
    IF PathName(path) # "" /\ HasDvcDir(path)
    THEN InvalidArgumentError("nested", <<path>>)
    ELSE Ok

RECURSIVE NestedWalk(_)
\* the while loop of check_for_nested_dvc_repo
NestedWalk(path) ==
    IF PathName(path) = "" THEN Ok
    ELSE IF HasDvcDir(path) THEN InvalidArgumentError("nested", <<path>>)
    ELSE NestedWalk(PathParent(path))

check_for_nested_dvc_repo(dvcfile) ==
    IF is_absolute(dvcfile) THEN InvalidArgumentError("absolute", <<>>)
    ELSE NestedWalk(PathParent(dvcfile))

\* ------------------------------------------------- artifacts, documents
None == "None"
ArtifactFields == {"path", "type"}
Artifacts == {[path |-> "m.pkl", type |-> "model"],
              [path |-> "m.pkl", type |-> "data"]}

\* Artifact.to_dict : the record as a dict, a set of <<key, value>> items
to_dict(a) == {<<k, a[k]>> : k \in DOMAIN a}

\* Artifact(**value) accepts only its own fields
WellFormed(value) == \A kv \in value : kv[1] \in ArtifactFields

\* Artifact(**value) : a field that is not given takes its default
Artifact(value) ==
    [f \in ArtifactFields |->
        IF \E kv \in value : kv[1] = f
        THEN (CHOOSE kv \in value : kv[1] = f)[2]
        ELSE None]

EmptyBlock == <<>>

\* a manifest file: the artifacts mapping and the other top-level keys
Doc(exists, other, hasArtifacts, artifacts) ==
    [exists |-> exists, other |-> other,
     hasArtifacts |-> hasArtifacts, artifacts |-> artifacts]
NoFile   == Doc(FALSE, {}, FALSE, EmptyBlock)
EmptyDoc == Doc(TRUE, {}, FALSE, EmptyBlock)

\* dict.update({name: value})
Update(block, name, value) ==
    [n \in DOMAIN block \cup {name} |-> IF n = name THEN value ELSE block[n]]

\* variant: the artifacts mapping is replaced, not updated
SessionBody_Replace(data, name, artifact) ==
    [data EXCEPT !.hasArtifacts = TRUE,
                 !.artifacts = name :> to_dict(artifact)]

\* the body of the modify_yaml session in add: setdefault, then update
SessionBody(data, name, artifact) ==
    [data EXCEPT !.hasArtifacts = TRUE,
                 !.artifacts = Update(data.artifacts, name, to_dict(artifact))]

\* the document modify_yaml loads: an absent file reads as an empty one
Load(doc) == IF doc.exists THEN doc ELSE EmptyDoc

\* ---------------------------------------------------------------- index
\* repo.index._artifacts : every manifest file with its artifacts block
IndexOf(fs) == [d \in {x \in Dirs : fs[x].exists} |-> fs[d].artifacts]

CommonLen(s, t) ==
    CHOOSE k \in 0..Len(s) :
        /\ k <= Len(t)
        /\ SubSeq(s, 1, k) = SubSeq(t, 1, k)
        /\ (k < Len(s) /\ k < Len(t) => s[k + 1] # t[k + 1])

\* relpath(dvcfile, root_dir) of the manifest in directory d
relpath(d, root) ==
    LET k == CommonLen(d, root)
    IN [i \in 1..(Len(root) - k) |-> UP]
           \o SubSeq(d, k + 1, Len(d)) \o <<PROJECT_FILE>>

\* the directory whose manifest has the registry key
DirOfKey(key) == CHOOSE d \in Dirs : relpath(d, RootDir) = key

\* ----------------------------------------------------------------- read
\* Artifact(**value) raises on a value that is not an artifact's
ReadRaises(idx) ==
    \E d \in DOMAIN idx : \E n \in DOMAIN idx[d] : ~WellFormed(idx[d][n])

\* variant: the artifacts are built without their values
ReadRegistry_NoValues(idx) ==
    [key \in {relpath(d, RootDir) : d \in DOMAIN idx} |->
        [n \in DOMAIN idx[DirOfKey(key)] |-> Artifact({})]]

\* variant: a manifest gets its key with its first artifact
ReadRegistry_SkipEmpty(idx) ==
    [key \in {relpath(d, RootDir) : d \in {x \in DOMAIN idx : idx[x] # <<>>}} |->
        [n \in DOMAIN idx[DirOfKey(key)] |->
            Artifact(idx[DirOfKey(key)][n])]]

\* the dict Artifacts.read builds
ReadRegistry(idx) ==
    [key \in {relpath(d, RootDir) : d \in DOMAIN idx} |->
        [n \in DOMAIN idx[DirOfKey(key)] |->
            Artifact(idx[DirOfKey(key)][n])]]

\* the names check_name_format warns about during a whole read
ReadWarnings(idx) ==
    UNION {check_name_format(n) : n \in UNION {DOMAIN idx[d] : d \in DOMAIN idx}}

\* ------------------------------------------------------------------ add
Event(ev, loc, arg) == [ev |-> ev, loc |-> loc, arg |-> arg]

Result(outcome, events, fs, ret) ==
    [outcome |-> outcome, events |-> events, files |-> fs, ret |-> ret]

\* modify_yaml(dvcyaml) around the session body: the file is written when
\* the body ends, and the directory of the file has to exist
modify_yaml(fs, dvcyaml, name, artifact) ==
    LET loc == Resolve(PathParent(dvcyaml))
    IN IF loc = NoEnt
       THEN [ok |-> FALSE, loc |-> loc, files |-> fs,
             events |-> <<>>]
       ELSE [ok |-> TRUE, loc |-> loc,
             files |-> [fs EXCEPT
                          ![loc] = SessionBody(Load(fs[loc]), name, artifact)],
             events |-> <<Event("open", loc, <<>>),
                          Event("commit", loc, <<>>)>>]

\* scm_context.track_file(dvcfile) : called with the argument as given
track_file(dvcfile) == Event("track", NoEnt, dvcfile)

\* variant: the path is handed over as given
CheckedPath_AsGiven(dvcyaml) == <<dvcyaml>>

\* the path add hands to check_for_nested_dvc_repo, <<>> for ValueError
CheckedPath(dvcyaml) ==
    IF is_absolute(dvcyaml) THEN relative_to(dvcyaml, RootDir)
    ELSE <<dvcyaml>>

\* variant: the path is checked before the name
add_PathFirst(fs, name, artifact, dvcfile) ==
    LET dvcyaml == IF dvcfile = <<>> THEN Path(FALSE, <<PROJECT_FILE>>)
                   ELSE dvcfile[1]
        rel     == CheckedPath(dvcyaml)
        session == modify_yaml(fs, dvcyaml, name, artifact)
    IN IF rel = <<>>
       THEN Result(Outcome("ValueError", "relative_to", <<>>), <<>>, fs, <<>>)
       ELSE IF check_for_nested_dvc_repo(rel[1]).kind # "ok"
       THEN Result(check_for_nested_dvc_repo(rel[1]), <<>>, fs, <<>>)
       ELSE IF ~name_is_compatible(name)
       THEN Result(InvalidArgumentError("name", <<>>), <<>>, fs, <<>>)
       ELSE IF ~session.ok
       THEN Result(Outcome("OSError", "open", <<>>), <<>>, fs, <<>>)
       ELSE Result(Ok,
                   session.events \o <<track_file(dvcfile)>>,
                   session.files,
                   <<session.files[session.loc].artifacts[name]>>)

\* Artifacts.add(name, artifact, dvcfile), dvcfile <<>> when it is omitted
add(fs, name, artifact, dvcfile) ==
    LET dvcyaml == IF dvcfile = <<>> THEN Path(FALSE, <<PROJECT_FILE>>)
                   ELSE dvcfile[1]
        rel     == CheckedPath(dvcyaml)
        session == modify_yaml(fs, dvcyaml, name, artifact)
    IN IF ~name_is_compatible(name)
       THEN Result(InvalidArgumentError("name", <<>>), <<>>, fs, <<>>)
       ELSE IF rel = <<>>
       THEN Result(Outcome("ValueError", "relative_to", <<>>), <<>>, fs, <<>>)
       ELSE IF check_for_nested_dvc_repo(rel[1]).kind # "ok"
       THEN Result(check_for_nested_dvc_repo(rel[1]), <<>>, fs, <<>>)
       ELSE IF ~session.ok
       THEN Result(Outcome("OSError", "open", <<>>), <<>>, fs, <<>>)
       ELSE Result(Ok,
                   session.events \o <<track_file(dvcfile)>>,
                   session.files,
                   <<session.files[session.loc].artifacts[name]>>)

\* ------------------------------------------------------------- inputs
AddNames == {<<"a">>, <<"a", "-", "1">>, <<"m", SEPARATOR_IN_NAME, "a">>}
AllNames == StringsUpTo(Chars, MaxNameLen)

RECURSIVE Inside(_, _)
\* the directory components never climb above the starting directory
Inside(ds, depth) ==
    IF ds = <<>> THEN TRUE
    ELSE IF Head(ds) = UP THEN depth > 0 /\ Inside(Tail(ds), depth - 1)
    ELSE Inside(Tail(ds), depth + 1)

ManifestPath(abs, ds) == Path(abs, ds \o <<PROJECT_FILE>>)
RelPaths(names, n) == {ManifestPath(FALSE, ds) : ds \in StringsUpTo(names, n)}
AbsPaths(names, n) == {ManifestPath(TRUE, ds) : ds \in StringsUpTo(names, n)}

\* relative manifest paths that stay inside the project
InsidePaths ==
    {q \in RelPaths({"sub", UP}, MaxDepth) : Inside(PathParent(q).parts, 0)}

\* add: omitted, relative, the same under the absolute project root, and
\* an absolute path outside the project
AddPaths ==
    {<<>>}
    \cup {<<p>> : p \in InsidePaths}
    \cup {<<Path(TRUE, RootDir \o p.parts)>> : p \in InsidePaths}
    \cup {<<ManifestPath(TRUE, <<>>)>>}

\* the guard alone: any relative path, "x" a directory that does not exist
GuardPaths ==
    RelPaths({"sub", UP, "x"}, MaxDepth + 1)
    \cup AbsPaths({"proj", "sub"}, MaxDepth)

\* ------------------------------------------------------ initial state
BadName == <<"A", "_", "1">>
Malformed == {<<"bogus", "x">>}
OldArtifact == [path |-> "old.pkl", type |-> "model"]

\* the manifests of the project root and of sub, before any call
Scenarios ==
    {<<NoFile, NoFile>>,
     <<Doc(TRUE, {"stages"}, FALSE, EmptyBlock),
       Doc(TRUE, {}, TRUE, BadName :> Malformed)>>,
     <<Doc(TRUE, {"stages"}, TRUE, BadName :> to_dict(OldArtifact)),
       Doc(TRUE, {}, TRUE, EmptyBlock)>>}

\* the call in progress: its arguments, the manifest files as they were
\* when it started, and what it has done and returned
Call(op, name, artifact, dvcfile, outcome, events, ret, warned) ==
    [op |-> op, name |-> name, artifact |-> artifact, dvcfile |-> dvcfile,
     before |-> files,
     outcome |-> outcome, events |-> events, ret |-> ret, warned |-> warned]
NoCall ==
    [op |-> "none", name |-> <<>>, artifact |-> <<>>, dvcfile |-> <<>>,
     before |-> [d \in Dirs |-> NoFile],
     outcome |-> Ok, events |-> <<>>, ret |-> <<>>, warned |-> {}]

InitState(dvcSets, scenarios) ==
    /\ dvcDirs \in dvcSets
    /\ \E sc \in scenarios :
           files = [d \in Dirs |-> IF d = RootDir THEN sc[1]
                                   ELSE IF d = SubDir THEN sc[2] ELSE NoFile]
    /\ index = IndexOf(files)
    /\ registry = <<>>
    /\ call = NoCall
    /\ nAdds = 0
    /\ files0 = files
    /\ added = [d \in Dirs |-> EmptyBlock]

\* a project, with or without a nested project in sub
Init == InitState({{RootDir}, {RootDir, SubDir}}, Scenarios)

\* the same, the project itself lying inside another one or not
InitGuard ==
    InitState({S \cup {RootDir} : S \in SUBSET {FsRoot, SubDir}},
              {<<NoFile, NoFile>>})

\* ------------------------------------------------------------ actions
\* Artifacts.read()
Read ==
    /\ call = NoCall
    /\ IF ReadRaises(index)
       THEN /\ \E w \in SUBSET ReadWarnings(index) :
                   call' = Call("read", <<>>, <<>>, <<>>,
                                Outcome("MalformedArtifactRecord", "", <<>>),
                                <<>>, <<>>, w)
            /\ UNCHANGED registry
       ELSE /\ call' = Call("read", <<>>, <<>>, <<>>, Ok, <<>>,
                            <<ReadRegistry(index)>>, ReadWarnings(index))
            /\ registry' = <<ReadRegistry(index)>>
    /\ UNCHANGED <<dvcDirs, files, index, nAdds, files0, added>>

\* Artifacts.add(name, artifact, dvcfile)
Add ==
    /\ call = NoCall
    /\ \E name \in AddNames, artifact \in Artifacts, dvcfile \in AddPaths :
        LET r == add(files, name, artifact, dvcfile)
        IN /\ r.outcome.kind = "ok" => nAdds < MaxAdds
           /\ files' = r.files
           /\ call' = Call("add", <<name>>, <<artifact>>, dvcfile,
                           r.outcome, r.events, r.ret, {})
           /\ nAdds' = IF r.outcome.kind = "ok" THEN nAdds + 1 ELSE nAdds
           /\ added' = IF r.outcome.kind = "ok"
                       THEN [added EXCEPT ![r.events[1].loc] =
                                [n \in DOMAIN @ \cup {name} |->
                                    IF n = name THEN artifact ELSE @[n]]]
                       ELSE added
           /\ UNCHANGED <<dvcDirs, index, registry, files0>>

\* the project index is built again from the manifest files
RefreshIndex ==
    /\ call = NoCall
    /\ index # IndexOf(files)
    /\ index' = IndexOf(files)
    /\ UNCHANGED <<dvcDirs, files, registry, call, nAdds, files0, added>>

\* name_is_compatible(name)
NameIsCompatible ==
    /\ call = NoCall
    /\ \E name \in AllNames :
           call' = Call("name_is_compatible", <<name>>, <<>>, <<>>, Ok, <<>>,
                        <<name_is_compatible(name)>>, {})
    /\ UNCHANGED <<dvcDirs, files, index, registry, nAdds, files0, added>>

\* check_name_format(name)
CheckNameFormat ==
    /\ call = NoCall
    /\ \E name \in AllNames :
           call' = Call("check_name_format", <<name>>, <<>>, <<>>, Ok, <<>>,
                        <<>>, check_name_format(name))
    /\ UNCHANGED <<dvcDirs, files, index, registry, nAdds, files0, added>>

\* check_for_nested_dvc_repo(dvcfile)
CheckForNested ==
    /\ call = NoCall
    /\ \E dvcfile \in GuardPaths :
           call' = Call("check_for_nested_dvc_repo", <<>>, <<>>, <<dvcfile>>,
                        check_for_nested_dvc_repo(dvcfile), <<>>, <<>>, {})
    /\ UNCHANGED <<dvcDirs, files, index, registry, nAdds, files0, added>>

\* the call is over: its result has gone to the caller
Return ==
    /\ call # NoCall
    /\ call' = NoCall
    /\ UNCHANGED <<dvcDirs, files, index, registry, nAdds, files0, added>>

Next == Read \/ Add \/ RefreshIndex \/ Return

Spec == Init /\ [][Next]_vars

NextNames == NameIsCompatible \/ CheckNameFormat \/ Return

SpecNames == Init /\ [][NextNames]_vars

NextGuard == CheckForNested \/ Return

SpecGuard == InitGuard /\ [][NextGuard]_vars

\* ================================================================ claims
Range(s) == {s[i] : i \in 1..Len(s)}

IsAdd == call.op = "add"
AddName == call.name[1]
AddArtifact == call.artifact[1]
AddOk == IsAdd /\ call.outcome.kind = "ok"
NothingDone == call.events = <<>> /\ files = call.before

\* the manifest path of the add in progress
AddPath ==
    IF call.dvcfile = <<>> THEN Path(FALSE, <<PROJECT_FILE>>)
    ELSE call.dvcfile[1]

\* a relative path one of whose lexical ancestors, from the parent of the
\* manifest up to the first component, holds a project-control directory
AncestorHasDvc(p) ==
    \E k \in 1..(Len(p.parts) - 1) :
        Resolve(Path(FALSE, SubSeq(p.parts, 1, k))) \in dvcDirs

\* ------------------------------------------------------------------ C1
\* ^[a-z0-9]([a-z0-9-]*[a-z0-9])?$ matched against the whole string
ClaimedGrammar(s) ==
    /\ Len(s) >= 1
    /\ s[1] \in AlNum
    /\ s[Len(s)] \in AlNum
    /\ Range(s) \subseteq AlNum \cup {"-"}

\* C1: name_is_compatible(s) is true exactly when s fully matches
\* ^[a-z0-9]([a-z0-9-]*[a-z0-9])?$ ; false for the empty string, a leading
\* or trailing hyphen, and any other character (slash, final newline, ...).
C1_Claim ==
    call.op = "name_is_compatible"
        => (call.ret[1] <=> ClaimedGrammar(call.name[1]))

\* ------------------------------------------------------------------ C2
AbsoluteAdd == IsAdd /\ call.dvcfile # <<>> /\ is_absolute(call.dvcfile[1])
UnderRoot(p) == IsPrefix(RootDir, p.parts)
RootRelative(p) == Path(FALSE, SubSeq(p.parts, Len(RootDir) + 1, Len(p.parts)))

\* C2 as stated: add with an absolute manifest path always fails with
\* InvalidArgument, no session opened, no file changed, nothing staged.
C2_Claim ==
    AbsoluteAdd => call.outcome.kind = "InvalidArgument" /\ NothingDone

\* C2 as amended: an absolute path under the project root is handled as
\* the root-relative path (same outcome, same files, same result, the
\* path as given staged); an absolute path outside the root fails, with
\* ValueError when the name is compatible, and nothing is done; add never
\* rejects a path for being absolute.
C2_Amended ==
    AbsoluteAdd =>
        /\ call.outcome.why # "absolute"
        /\ IF UnderRoot(AddPath)
           THEN LET r == add(call.before, AddName, AddArtifact,
                             <<RootRelative(AddPath)>>)
                IN /\ call.outcome = r.outcome
                   /\ files = r.files
                   /\ call.ret = r.ret
                   /\ Len(call.events) = Len(r.events)
                   /\ AddOk => /\ SubSeq(call.events, 1, 2) = SubSeq(r.events, 1, 2)
                               /\ call.events[3] = Event("track", NoEnt, call.dvcfile)
           ELSE /\ call.outcome.kind # "ok"
                /\ name_is_compatible(AddName) => call.outcome.kind = "ValueError"
                /\ NothingDone

C2_Witness ==
    /\ AbsoluteAdd /\ AddOk
    /\ UnderRoot(AddPath)
    /\ files # call.before

\* ------------------------------------------------------------------ C3
\* <namespace>:<base> with a base that is compatible on its own
Namespaced(name) ==
    \E i \in 2..(Len(name) - 1) :
        /\ name[i] = SEPARATOR_IN_NAME
        /\ SEPARATOR_IN_NAME \notin Range(SubSeq(name, 1, i - 1))
        /\ name_is_compatible(SubSeq(name, i + 1, Len(name)))

PathPassesGuard ==
    /\ CheckedPath(AddPath) # <<>>
    /\ check_for_nested_dvc_repo(CheckedPath(AddPath)[1]).kind = "ok"

\* C3 as stated: add with a namespaced name whose base part is compatible
\* succeeds when the path passes the nested-project check, and the entry
\* is stored under the full name.
C3_Claim ==
    IsAdd /\ Namespaced(AddName) /\ PathPassesGuard
        => /\ call.outcome.kind = "ok"
           /\ \E d \in Dirs : AddName \in DOMAIN files[d].artifacts

\* C3 as amended: add checks the whole name, separator included, against
\* the base grammar, so a name that holds ':' always fails with the
\* InvalidArgument of the name check and nothing is done.
C3_Amended ==
    IsAdd /\ SEPARATOR_IN_NAME \in Range(AddName)
        => call.outcome = InvalidArgumentError("name", <<>>) /\ NothingDone

C3_Witness ==
    /\ IsAdd /\ Namespaced(AddName) /\ PathPassesGuard
    /\ call.outcome.kind = "InvalidArgument"

\* ------------------------------------------------------------------ C4
RelativeAdd == IsAdd /\ call.dvcfile # <<>> /\ ~is_absolute(call.dvcfile[1])

\* C4: add with a compatible name and a relative manifest path that has an
\* ancestor holding a project-control directory fails with InvalidArgument
\* and leaves the manifest files, the target among them, as they were.
C4_NestedRejected ==
    RelativeAdd /\ name_is_compatible(AddName) /\ AncestorHasDvc(AddPath)
        => /\ call.outcome.kind = "InvalidArgument"
           /\ call.outcome.why = "nested"
           /\ NothingDone

\* the manifest would lie in the nested project sub, and does not exist
C4_Witness ==
    /\ RelativeAdd /\ name_is_compatible(AddName)
    /\ AncestorHasDvc(AddPath)
    /\ Resolve(PathParent(AddPath)) = SubDir
    /\ ~files[SubDir].exists
    /\ call.outcome.why = "nested"

\* ------------------------------------------------------------------ C5
\* C5: in every manifest, each name ever added holds the serialized
\* payload of its most recent add, every other entry holds the value it
\* had before any add, no other entry exists, and the top-level keys
\* other than artifacts are as they were.
C5_Upsert ==
    \A d \in Dirs :
        /\ DOMAIN files[d].artifacts
               = DOMAIN files0[d].artifacts \cup DOMAIN added[d]
        /\ \A n \in DOMAIN added[d] :
               files[d].artifacts[n] = to_dict(added[d][n])
        /\ \A n \in DOMAIN files0[d].artifacts \ DOMAIN added[d] :
               files[d].artifacts[n] = files0[d].artifacts[n]
        /\ files[d].other = files0[d].other

\* a second add of a name replaces its payload, in a manifest that holds
\* another added name, an older entry and another top-level key
C5_Witness ==
    /\ AddOk
    /\ \E d \in Dirs :
           /\ call.events[1].loc = d
           /\ AddName \in DOMAIN call.before[d].artifacts
           /\ call.before[d].artifacts[AddName] # to_dict(AddArtifact)
           /\ DOMAIN files0[d].artifacts # {}
           /\ files0[d].other # {}

\* ------------------------------------------------------------------ C6
\* the registry key of the manifest in a directory of the project
KeyOf(d) == SubSeq(d, Len(RootDir) + 1, Len(d)) \o <<PROJECT_FILE>>

ReadOk == call.op = "read" /\ call.outcome.kind = "ok"
IndexFresh == index = IndexOf(files)

C6_Reflects ==
    ReadOk /\ IndexFresh =>
        \A d \in Dirs : \A n \in DOMAIN added[d] :
            /\ KeyOf(d) \in DOMAIN call.ret[1]
            /\ n \in DOMAIN call.ret[1][KeyOf(d)]
            /\ call.ret[1][KeyOf(d)][n] = added[d][n]

C6_SnapshotKept == call'.op = "add" => registry' = registry

\* C6: a read on an index that reflects the manifest files returns, for
\* every successful add so far, the manifest's key and under it the name
\* with the artifact last written for it; and an add does not change the
\* Registry an earlier read returned.
C6_AddThenRead == [](C6_Reflects) /\ [][C6_SnapshotKept]_vars

\* a read on a fresh index after two adds
C6_Witness ==
    /\ ReadOk /\ IndexFresh
    /\ \E d \in Dirs : added[d] # EmptyBlock
    /\ nAdds = 2

\* ------------------------------------------------------------------ C7
\* C7: read fails only for a raw value that is no artifact, never for a
\* name; when it returns, the keys of the Registry are exactly the index's
\* manifests relative to the project root, each inner mapping has exactly
\* the names of the manifest's raw block (an empty block gives an empty
\* mapping), and the names outside the grammar are the ones warned about.
C7_ReadListsAll ==
    call.op = "read" =>
        /\ call.outcome.kind = "ok" <=>
               \A d \in DOMAIN index : \A n \in DOMAIN index[d] :
                   WellFormed(index[d][n])
        /\ ReadOk =>
               /\ DOMAIN call.ret[1] = {KeyOf(d) : d \in DOMAIN index}
               /\ \A d \in DOMAIN index :
                      /\ DOMAIN call.ret[1][KeyOf(d)] = DOMAIN index[d]
                      /\ index[d] = EmptyBlock
                             => call.ret[1][KeyOf(d)] = EmptyBlock
               /\ call.warned =
                      {n \in UNION {DOMAIN index[d] : d \in DOMAIN index} :
                          ~name_is_compatible(n)}

\* a manifest with an empty block and one with a name outside the grammar
C7_Witness ==
    /\ ReadOk
    /\ \E d \in DOMAIN index : index[d] = EmptyBlock
    /\ \E d \in DOMAIN index : \E n \in DOMAIN index[d] :
           ~name_is_compatible(n) /\ n \in DOMAIN call.ret[1][KeyOf(d)]

\* ------------------------------------------------------------------ C8
\* C8: a successful add calls track_file exactly once, after the session
\* on the manifest has committed, with an argument that names the manifest
\* the session wrote, the default manifest when the path is omitted.
C8_Claim ==
    AddOk =>
        /\ Cardinality({i \in 1..Len(call.events) :
                           call.events[i].ev = "track"}) = 1
        /\ \E i, j \in 1..Len(call.events) :
               /\ i < j
               /\ call.events[i].ev = "commit"
               /\ call.events[j].ev = "track"
               /\ call.events[j].arg # <<>>
               /\ Resolve(PathParent(call.events[j].arg[1]))
                      = call.events[i].loc

\* ------------------------------------------------------------------ C9
\* C9: a name that is not compatible makes add fail with the name's
\* InvalidArgument whatever the path is; an add that fails with
\* InvalidArgument has opened no session, changed no manifest and staged
\* nothing; a successful add opens, commits and then stages.
C9_Order ==
    IsAdd =>
        /\ ~name_is_compatible(AddName)
               => call.outcome = InvalidArgumentError("name", <<>>)
        /\ call.outcome.kind = "InvalidArgument" => NothingDone
        /\ call.outcome.why = "nested" => name_is_compatible(AddName)
        /\ AddOk => /\ Len(call.events) = 3
                    /\ call.events[1].ev = "open"
                    /\ call.events[2].ev = "commit"
                    /\ call.events[3].ev = "track"

\* a bad name together with a nested path, and together with an absolute one
C9_Witness ==
    /\ IsAdd /\ ~name_is_compatible(AddName)
    /\ call.dvcfile # <<>>
    /\ ~is_absolute(AddPath) /\ AncestorHasDvc(AddPath)
    /\ call.outcome.why = "name"

\* ----------------------------------------------------------------- C10
\* C10: for a relative path check_for_nested_dvc_repo fails with
\* InvalidArgument exactly when a directory of the chain from the
\* manifest's parent upward holds a project-control directory, and so a
\* manifest that lies directly in the project root is never rejected.
C10_Claim ==
    call.op = "check_for_nested_dvc_repo" /\ ~is_absolute(call.dvcfile[1])
        => /\ call.outcome.kind = "InvalidArgument"
                  <=> AncestorHasDvc(call.dvcfile[1])
           /\ Resolve(PathParent(call.dvcfile[1])) = RootDir
                  => call.outcome.kind = "ok"

====
